---- MODULE Spec2Model ----
(***************************************************************************)
(* cargo-kubos: a wrapper which converts a Kubos target into a Rust/Clang  *)
(* target triplet, looks for a linker in $CARGO_HOME/config and runs       *)
(* `cargo <command> --target <triplet> <extra params>`, exiting with the   *)
(* status of the child.  The model follows src/src/main.rs step by step.   *)
(***************************************************************************)
EXTENDS Integers, Sequences, FiniteSets, TLC

VARIABLES
    args,          \* env::args()[1..], the command line after the program name
    procEnv,       \* the environment of the wrapper process
    pc,            \* position of main
    matches,       \* result of opts.parse
    out,           \* what the wrapper printed on stdout
    extra_params,  \* main: extra_params
    k_target,      \* main: k_target, as Option
    c_target,      \* main: c_target, as Option
    cfg,           \* cargo_linker: what was read at $CARGO_HOME/config
    linker,        \* cargo_command: result of cargo_linker
    cmdEnv,        \* cargo_command: variables set with command.env
    child,         \* the child process: arguments, environment, status
    exitCode,      \* exit status of the wrapper, as Option
    panicMsg       \* message of the panic, as Option

vars == <<args, procEnv, pc, matches, out, extra_params, k_target, c_target,
          cfg, linker, cmdEnv, child, exitCode, panicMsg>>

----------------------------------------------------------------------------
(* Bounds *)

MaxArgs == 4
MaxCode == 2

(* Option<T> is a sequence of length 0 (None) or 1 (Some) *)
None == <<>>
Some(x) == <<x>>
IsSome(o) == Len(o) = 1
Unwrap(o) == o[1]

----------------------------------------------------------------------------
(* Constants of the program *)

X86_TARGET_STR == "x86-linux-native"

SupportedTargets ==
    <<"x86-linux-native", "kubos-linux-beaglebone-gcc",
      "kubos-linux-pumpkin-mbm2-gcc", "kubos-linux-isis-gcc">>

SupportedSet == {SupportedTargets[i] : i \in 1..Len(SupportedTargets)}

KubosAlias == "kubos"

PanicExitCode == 101

(* target_converter with a last arm which falls back to the native triplet *)
target_converter_Fallback(kubos_target) ==
    CASE kubos_target = "kubos-linux-beaglebone-gcc" -> Some("arm-unknown-linux-gnueabihf")
      [] kubos_target = "kubos-linux-pumpkin-mbm2-gcc" -> Some("arm-unknown-linux-gnueabihf")
      [] kubos_target = "kubos-linux-isis-gcc" -> Some("armv5te-unknown-linux-gnueabi")
      [] OTHER -> Some("x86_64-unknown-linux-gnu")

(* target_converter with the triplet of the beaglebone given to the isis board *)
target_converter_IsisHardFloat(kubos_target) ==
    CASE kubos_target = X86_TARGET_STR -> Some("x86_64-unknown-linux-gnu")
      [] kubos_target = "kubos-linux-beaglebone-gcc" -> Some("arm-unknown-linux-gnueabihf")
      [] kubos_target = "kubos-linux-pumpkin-mbm2-gcc" -> Some("arm-unknown-linux-gnueabihf")
      [] kubos_target = "kubos-linux-isis-gcc" -> Some("arm-unknown-linux-gnueabihf")
      [] OTHER -> None

(* target_converter: Some(triplet), or None where the code panics *)
target_converter(kubos_target) ==
    CASE kubos_target = X86_TARGET_STR -> Some("x86_64-unknown-linux-gnu")
      [] kubos_target = "kubos-linux-beaglebone-gcc" -> Some("arm-unknown-linux-gnueabihf")
      [] kubos_target = "kubos-linux-pumpkin-mbm2-gcc" -> Some("arm-unknown-linux-gnueabihf")
      [] kubos_target = "kubos-linux-isis-gcc" -> Some("armv5te-unknown-linux-gnueabi")
      [] OTHER -> None

(* the message of the panic of target_converter, piece by piece *)
UnsupportedMsg(kubos_target) ==
    <<"Target '", kubos_target, "' not supported for cargo/yotta builds",
      "Currently supported targets are:",
      "x86-linux-native",
      "kubos-linux-beaglebone-gcc",
      "kubos-linux-pumpkin-mbm2-gcc",
      "kubos-linux-isis-gcc">>

----------------------------------------------------------------------------
(* Command line: opts.reqopt("c"), opts.optopt("t"), opts.optflag("h") *)

Targets == SupportedSet

(* tokens which start with '-' and are longer than one character *)
Dashed == {"-c", "-t", "-h", "-v", "--"}

Tokens == Dashed \cup {"kubos", "build"} \cup Targets

RECURSIVE SeqsUpTo(_, _)
SeqsUpTo(S, n) ==
    IF n = 0 THEN {<<>>}
    ELSE LET shorter == SeqsUpTo(S, n - 1)
         IN shorter \cup {Append(s, x) : s \in {q \in shorter : Len(q) = n - 1}, x \in S}

ArgLists == SeqsUpTo(Tokens, MaxArgs)

NoMatches == [ok |-> FALSE, err |-> "", c |-> <<>>, t |-> <<>>, h |-> 0, free |-> <<>>]

Fail(e) == [NoMatches EXCEPT !.err = e]

(* the checks of Options::parse had "c" been declared with optopt *)
ParseEnd_CommandOptional(c, t, h, free) ==
    IF Len(c) > 1 \/ Len(t) > 1 \/ h > 1 THEN Fail("OptionDuplicated")
    ELSE [ok |-> TRUE, err |-> "", c |-> c, t |-> t, h |-> h, free |-> free]

(* the checks of Options::parse after the scan, in the order the options were declared *)
ParseEnd(c, t, h, free) ==
    IF c = <<>> THEN Fail("OptionMissing")
    ELSE IF Len(c) > 1 \/ Len(t) > 1 \/ h > 1 THEN Fail("OptionDuplicated")
    ELSE [ok |-> TRUE, err |-> "", c |-> c, t |-> t, h |-> h, free |-> free]

(* the scan of Options::parse: an option with an argument takes the next    *)
(* token whatever it is, "--" ends the options, other tokens are free       *)
RECURSIVE ParseFrom(_, _, _, _, _, _)
ParseFrom(a, i, c, t, h, free) ==
    IF i > Len(a) THEN ParseEnd(c, t, h, free)
    ELSE LET cur == a[i] IN
         IF cur \notin Dashed THEN ParseFrom(a, i + 1, c, t, h, Append(free, cur))
         ELSE IF cur = "--" THEN ParseEnd(c, t, h, free \o SubSeq(a, i + 1, Len(a)))
         ELSE IF cur = "-c" THEN
              IF i = Len(a) THEN Fail("ArgumentMissing")
              ELSE ParseFrom(a, i + 2, Append(c, a[i + 1]), t, h, free)
         ELSE IF cur = "-t" THEN
              IF i = Len(a) THEN Fail("ArgumentMissing")
              ELSE ParseFrom(a, i + 2, c, Append(t, a[i + 1]), h, free)
         ELSE IF cur = "-h" THEN ParseFrom(a, i + 1, c, t, h + 1, free)
         ELSE Fail("UnrecognizedOption")

OptsParse(a) == ParseFrom(a, 1, <<>>, <<>>, 0, <<>>)

(* Matches::opt_str and Matches::opt_present *)
opt_str(vals) == IF vals = <<>> THEN None ELSE Some(vals[1])
opt_present_h(m) == m.h > 0

(* a removal of the first "kubos" only *)
RECURSIVE Retain_FirstOnly(_)
Retain_FirstOnly(s) ==
    IF s = <<>> THEN <<>>
    ELSE IF Head(s) # KubosAlias THEN <<Head(s)>> \o Retain_FirstOnly(Tail(s))
    ELSE Tail(s)

(* params.retain(|x| x != "kubos") *)
RECURSIVE Retain(_)
Retain(s) ==
    IF s = <<>> THEN <<>>
    ELSE IF Head(s) # KubosAlias THEN <<Head(s)>> \o Retain(Tail(s))
    ELSE Retain(Tail(s))

(* main, lines 123-130 *)
ExtraParams(m) == IF m.free # <<>> THEN Retain(m.free) ELSE <<>>

(* main, lines 135-138, with another default *)
KTarget_OtherDefault(m) ==
    IF IsSome(opt_str(m.t)) THEN Unwrap(opt_str(m.t)) ELSE "kubos-linux-beaglebone-gcc"

(* main, lines 135-138 *)
KTarget(m) == IF IsSome(opt_str(m.t)) THEN Unwrap(opt_str(m.t)) ELSE X86_TARGET_STR

----------------------------------------------------------------------------
(* The configuration file: a toml::Value is a String, an Integer or a Table; *)
(* a table is a sequence of <<key, value>> entries with distinct keys        *)

Str(s) == [type |-> "String", str |-> s, tbl |-> <<>>]
IntVal == [type |-> "Integer", str |-> "", tbl |-> <<>>]
Tbl(entries) == [type |-> "Table", str |-> "", tbl |-> entries]

(* Value::get(key): only a table has keys *)
Get(v, key) ==
    IF v.type = "Table" /\ \E i \in 1..Len(v.tbl) : v.tbl[i][1] = key
    THEN Some(v.tbl[CHOOSE i \in 1..Len(v.tbl) : v.tbl[i][1] = key][2])
    ELSE None

(* Value::as_str *)
as_str(v) == IF v.type = "String" THEN Some(v.str) ELSE None

Linkers == {"arm-linux-gcc", "/usr/bin/bbb-gcc"}

Triplets == {Unwrap(target_converter(t)) : t \in SupportedSet}

SectionKeys == Triplets \cup {"kubos-linux-isis-gcc"}

SectionVals ==
    {IntVal, Tbl(<<>>), Tbl(<< <<"linker", IntVal>> >>)}
        \cup {Tbl(<< <<"linker", Str(l)>> >>) : l \in Linkers}

TargetVals ==
    {IntVal, Tbl(<<>>)} \cup {Tbl(<< <<k, sv>> >>) : k \in SectionKeys, sv \in SectionVals}

Docs == {Tbl(<<>>)} \cup {Tbl(<< <<"target", tv>> >>) : tv \in TargetVals}

(* what fs::read_to_string and str::parse find at $CARGO_HOME/config *)
Files ==
    {[read |-> FALSE, parsed |-> None], [read |-> TRUE, parsed |-> None]}
        \cup {[read |-> TRUE, parsed |-> Some(d)] : d \in Docs}

Ok(x) == [ok |-> TRUE, val |-> x, err |-> ""]
Err(e) == [ok |-> FALSE, val |-> "", err |-> e]

(* cargo_linker: the chain of `?`; home is env::var("CARGO_HOME") *)
cargo_linker(target, home, file) ==
    IF ~IsSome(home) THEN Err("CARGO_HOME")
    ELSE IF ~file.read THEN Err("read_to_string")
    ELSE IF ~IsSome(file.parsed) THEN Err("parse")
    ELSE LET doc == Unwrap(file.parsed)
             targets == Get(doc, "target")
         IN IF ~IsSome(targets) THEN Err("no targets defined")
            ELSE LET section == Get(Unwrap(targets), target)
                 IN IF ~IsSome(section) THEN Err("target not defined")
                    ELSE LET l == Get(Unwrap(section), "linker")
                         IN IF ~IsSome(l) THEN Err("no linker found")
                            ELSE IF ~IsSome(as_str(Unwrap(l)))
                                 THEN Err("could not convert linker to string")
                                 ELSE Ok(Unwrap(as_str(Unwrap(l))))

----------------------------------------------------------------------------
(* The environment of the process *)

EnvNames == {"CARGO_HOME", "CARGO_KUBOS_TARGET", "CC", "CXX", "PKG_CONFIG_ALLOW_CROSS"}

NoEnv == [n \in EnvNames |-> None]

(* environments the wrapper may be started in: nothing set; CARGO_HOME set;  *)
(* CARGO_HOME set with the variables of an earlier build still exported      *)
ParentEnvs ==
    {NoEnv,
     [NoEnv EXCEPT !["CARGO_HOME"] = Some("/home/kubos/.cargo")],
     [NoEnv EXCEPT !["CARGO_HOME"] = Some("/home/kubos/.cargo"),
                   !["CARGO_KUBOS_TARGET"] = Some("kubos-linux-isis-gcc"),
                   !["CC"] = Some("cc")]}

(* Command::env over the inherited environment *)
ChildEnv(penv, cenv) == [n \in EnvNames |-> IF IsSome(cenv[n]) THEN cenv[n] ELSE penv[n]]

(* cargo_command, lines 71-75, with the cross flag set outside the `if let` *)
CommandEnv_AlwaysCross(res) ==
    IF res.ok
    THEN [NoEnv EXCEPT !["CC"] = Some(res.val), !["CXX"] = Some(res.val),
                       !["PKG_CONFIG_ALLOW_CROSS"] = Some("1")]
    ELSE [NoEnv EXCEPT !["PKG_CONFIG_ALLOW_CROSS"] = Some("1")]

(* cargo_command, lines 71-75 *)
CommandEnv(res) ==
    IF res.ok
    THEN [NoEnv EXCEPT !["CC"] = Some(res.val), !["CXX"] = Some(res.val),
                       !["PKG_CONFIG_ALLOW_CROSS"] = Some("1")]
    ELSE NoEnv

(* cargo_command, lines 67-68 *)
Params(target, command, extra) == <<command, "--target", target>> \o extra

(* cargo_linker(&params[0]): the lookup under the name of the command *)
LinkerTarget_Command(params) == params[1]

(* cargo_command, line 71: cargo_linker(&params[2]), counted from 0 *)
LinkerTarget(params) == params[3]

(* set_var("CARGO_KUBOS_TARGET", &c_target) *)
TargetVarValue_Triplet(k, c) == c

(* main, line 141: the value of CARGO_KUBOS_TARGET *)
TargetVarValue(k, c) == k

NoChild == [launched |-> FALSE, args |-> <<>>, env |-> NoEnv, status |-> None]

(* ExitStatus of the child: an exit code, or none when a signal ended it *)
ExitCodes == 0..MaxCode \cup {255}
Statuses == {[code |-> Some(c)] : c \in ExitCodes} \cup {[code |-> None]}

(* ExitStatus::success *)
success(st) == st.code = Some(0)

(* an exit which reports every failure of the child as 1 *)
ParentExit_Flattened(st) ==
    IF success(st) THEN Some(0)
    ELSE IF IsSome(st.code) THEN Some(1)
    ELSE None

(* exit(status.code().unwrap_or(0)) *)
ParentExit_UnwrapOrZero(st) ==
    IF success(st) THEN Some(0)
    ELSE IF IsSome(st.code) THEN Some(Unwrap(st.code) % 256)
    ELSE Some(0)

(* cargo_command, lines 87-90: Some(exit status), or None where unwrap panics *)
ParentExit(st) ==
    IF success(st) THEN Some(0)
    ELSE IF IsSome(st.code) THEN Some(Unwrap(st.code) % 256)
    ELSE None

----------------------------------------------------------------------------
Init ==
    /\ args \in ArgLists
    /\ procEnv \in ParentEnvs
    /\ pc = "start"
    /\ matches = NoMatches
    /\ out = <<>>
    /\ extra_params = <<>>
    /\ k_target = None
    /\ c_target = None
    /\ cfg = None
    /\ linker = None
    /\ cmdEnv = NoEnv
    /\ child = NoChild
    /\ exitCode = None
    /\ panicMsg = None

(* main, lines 106-120: parse, or print the error and the usage and return *)
Parse ==
    /\ pc = "start"
    /\ LET m == OptsParse(args) IN
       /\ matches' = m
       /\ IF m.ok
          THEN /\ pc' = "parsed"
               /\ UNCHANGED <<out, exitCode>>
          ELSE /\ pc' = "done"
               /\ out' = <<"Error", m.err, "usage">>
               /\ exitCode' = Some(0)
    /\ UNCHANGED <<args, procEnv, extra_params, k_target, c_target, cfg, linker,
                   cmdEnv, child, panicMsg>>

(* main, lines 122-130 *)
CollectExtra ==
    /\ pc = "parsed"
    /\ extra_params' = ExtraParams(matches)
    /\ pc' = "collected"
    /\ UNCHANGED <<args, procEnv, matches, out, k_target, c_target, cfg, linker,
                   cmdEnv, child, exitCode, panicMsg>>

(* main, lines 132-133: print the usage and return *)
Help ==
    /\ pc = "collected"
    /\ opt_present_h(matches)
    /\ out' = <<"usage">>
    /\ pc' = "done"
    /\ exitCode' = Some(0)
    /\ UNCHANGED <<args, procEnv, matches, extra_params, k_target, c_target, cfg,
                   linker, cmdEnv, child, panicMsg>>

(* main, lines 135-140: target_converter returns or panics *)
ResolveTarget ==
    /\ pc = "collected"
    /\ ~opt_present_h(matches)
    /\ LET k == KTarget(matches)
           c == target_converter(k)
       IN /\ k_target' = Some(k)
          /\ c_target' = c
          /\ IF IsSome(c)
             THEN /\ pc' = "resolved"
                  /\ UNCHANGED <<exitCode, panicMsg>>
             ELSE /\ pc' = "panicked"
                  /\ exitCode' = Some(PanicExitCode)
                  /\ panicMsg' = Some(UnsupportedMsg(k))
    /\ UNCHANGED <<args, procEnv, matches, out, extra_params, cfg, linker,
                   cmdEnv, child>>

(* main, line 141 *)
SetTargetVar ==
    /\ pc = "resolved"
    /\ procEnv' = [procEnv EXCEPT !["CARGO_KUBOS_TARGET"] =
                                       Some(TargetVarValue(Unwrap(k_target), Unwrap(c_target)))]
    /\ pc' = "envset"
    /\ UNCHANGED <<args, matches, out, extra_params, k_target, c_target, cfg,
                   linker, cmdEnv, child, exitCode, panicMsg>>

(* cargo_command, lines 67-75, with cargo_linker: the file is read only     *)
(* when CARGO_HOME is set                                                    *)
CargoLinker ==
    /\ pc = "envset"
    /\ LET params == Params(Unwrap(c_target), Unwrap(opt_str(matches.c)), extra_params)
           home == procEnv["CARGO_HOME"]
       IN \E file \in Files :
            /\ IsSome(home) \/ file = [read |-> FALSE, parsed |-> None]
            /\ cfg' = IF IsSome(home) THEN Some(file) ELSE None
            /\ linker' = Some(cargo_linker(LinkerTarget(params), home, file))
            /\ cmdEnv' = CommandEnv(cargo_linker(LinkerTarget(params), home, file))
    /\ pc' = "linked"
    /\ UNCHANGED <<args, procEnv, matches, out, extra_params, k_target, c_target,
                   child, exitCode, panicMsg>>

(* cargo_command, lines 77-83: the child starts, or status() fails and      *)
(* unwrap panics; the configuration document read by cargo_linker is gone   *)
Spawn ==
    /\ pc = "linked"
    /\ \E started \in BOOLEAN :
         IF started
         THEN /\ child' = [launched |-> TRUE,
                           args |-> Params(Unwrap(c_target), Unwrap(opt_str(matches.c)),
                                           extra_params),
                           env |-> ChildEnv(procEnv, cmdEnv),
                           status |-> None]
              /\ pc' = "waiting"
              /\ UNCHANGED <<exitCode, panicMsg>>
         ELSE /\ pc' = "panicked"
              /\ exitCode' = Some(PanicExitCode)
              /\ panicMsg' = Some(<<"called Result::unwrap() on an Err value">>)
              /\ UNCHANGED child
    /\ cfg' = None
    /\ UNCHANGED <<args, procEnv, matches, out, extra_params, k_target, c_target,
                   linker, cmdEnv>>

(* the child ends: status() returns *)
ChildTerminates ==
    /\ pc = "waiting"
    /\ \E st \in Statuses : child' = [child EXCEPT !.status = Some(st)]
    /\ pc' = "exiting"
    /\ UNCHANGED <<args, procEnv, matches, out, extra_params, k_target, c_target,
                   cfg, linker, cmdEnv, exitCode, panicMsg>>

(* cargo_command, lines 85-90 *)
Exit ==
    /\ pc = "exiting"
    /\ LET e == ParentExit(Unwrap(child.status)) IN
       IF IsSome(e)
       THEN /\ pc' = "done"
            /\ exitCode' = e
            /\ UNCHANGED panicMsg
       ELSE /\ pc' = "panicked"
            /\ exitCode' = Some(PanicExitCode)
            /\ panicMsg' = Some(<<"called Option::unwrap() on a None value">>)
    /\ UNCHANGED <<args, procEnv, matches, out, extra_params, k_target, c_target,
                   cfg, linker, cmdEnv, child>>

Next ==
    \/ Parse
    \/ CollectExtra
    \/ Help
    \/ ResolveTarget
    \/ SetTargetVar
    \/ CargoLinker
    \/ Spawn
    \/ ChildTerminates
    \/ Exit

Spec == Init /\ [][Next]_vars

----------------------------------------------------------------------------
(* Properties *)

Terminated == pc \in {"done", "panicked"}

ChildCode == Unwrap(child.status).code

(* C1: when the child ends with an exit code, the wrapper exits with       *)
(* exactly that code: 0 for success, the child's own code otherwise        *)
C1_ExitCodePassedThrough ==
    (Terminated /\ IsSome(child.status) /\ IsSome(ChildCode))
        => (pc = "done" /\ exitCode = ChildCode)

C1_Witness ==
    /\ pc = "done"
    /\ IsSome(child.status)
    /\ ChildCode = Some(2)
    /\ exitCode = Some(2)

(* C2: when the child ends without an exit code, the wrapper ends with a   *)
(* failure status which is not a status of the child: that of the panic    *)
C2_NoCodeIsFailure ==
    (Terminated /\ IsSome(child.status) /\ ~IsSome(ChildCode))
        => (/\ pc = "panicked"
            /\ exitCode = Some(PanicExitCode)
            /\ Unwrap(exitCode) # 0)

C2_Witness ==
    /\ pc = "panicked"
    /\ IsSome(child.status)
    /\ ChildCode = None
    /\ exitCode = Some(PanicExitCode)

ListsAllSupported(msg) ==
    \A i \in 1..Len(SupportedTargets) : \E j \in 1..Len(msg) : msg[j] = SupportedTargets[i]

(* C3: a target outside the four supported ones makes the resolution       *)
(* abort the process with a nonzero status and a message which lists the   *)
(* four supported targets; no triplet is returned, no child is launched    *)
C3_UnsupportedTargetAborts ==
    (IsSome(k_target) /\ Unwrap(k_target) \notin
        {"x86-linux-native", "kubos-linux-beaglebone-gcc",
         "kubos-linux-pumpkin-mbm2-gcc", "kubos-linux-isis-gcc"})
        => (/\ pc = "panicked"
            /\ IsSome(exitCode) /\ Unwrap(exitCode) # 0
            /\ IsSome(panicMsg) /\ ListsAllSupported(Unwrap(panicMsg))
            /\ \E j \in 1..Len(Unwrap(panicMsg)) : Unwrap(panicMsg)[j] = Unwrap(k_target)
            /\ c_target = None
            /\ ~child.launched
            /\ cmdEnv = NoEnv)

C3_Witness ==
    /\ k_target = Some("build")
    /\ pc = "panicked"
    /\ ~child.launched

ExpectedTriplet ==
    [t \in {"x86-linux-native", "kubos-linux-beaglebone-gcc",
            "kubos-linux-pumpkin-mbm2-gcc", "kubos-linux-isis-gcc"} |->
        IF t = "x86-linux-native" THEN "x86_64-unknown-linux-gnu"
        ELSE IF t = "kubos-linux-isis-gcc" THEN "armv5te-unknown-linux-gnueabi"
        ELSE "arm-unknown-linux-gnueabihf"]

(* C4: each of the four supported targets resolves to its triplet, which   *)
(* depends on the target alone                                             *)
C4_SupportedTargetTriplet ==
    (IsSome(k_target) /\ Unwrap(k_target) \in DOMAIN ExpectedTriplet)
        => (/\ c_target = Some(ExpectedTriplet[Unwrap(k_target)])
            /\ pc = "panicked" => IsSome(linker))

C4_Witness ==
    /\ k_target = Some("kubos-linux-isis-gcc")
    /\ c_target = Some("armv5te-unknown-linux-gnueabi")
    /\ child.launched
    /\ child.args[3] = "armv5te-unknown-linux-gnueabi"

(* the strings found at target.<key>.linker in a file, read off the        *)
(* document itself                                                          *)
LinkerStrings(file, key) ==
    IF ~file.read \/ file.parsed = None THEN {}
    ELSE LET doc == file.parsed[1] IN
         {l \in Linkers :
            \E i \in 1..Len(doc.tbl) :
               /\ doc.tbl[i][1] = "target"
               /\ doc.tbl[i][2].type = "Table"
               /\ \E j \in 1..Len(doc.tbl[i][2].tbl) :
                    /\ doc.tbl[i][2].tbl[j][1] = key
                    /\ doc.tbl[i][2].tbl[j][2] = Tbl(<< <<"linker", Str(l)>> >>)}

LinkerVars == {"CC", "CXX", "PKG_CONFIG_ALLOW_CROSS"}

SpawnFailed == pc = "panicked" /\ ~child.launched /\ IsSome(linker)

(* C5: a linker lookup which fails at any stage is not propagated: the     *)
(* wrapper goes on to launch the child, and sets none of CC, CXX and       *)
(* PKG_CONFIG_ALLOW_CROSS for it                                           *)
C5_LookupFailureIsSilent ==
    /\ (pc = "linked" /\ (procEnv["CARGO_HOME"] = None
                            \/ LinkerStrings(Unwrap(cfg), Unwrap(c_target)) = {}))
          => (~Unwrap(linker).ok /\ exitCode = None /\ panicMsg = None)
    /\ (IsSome(linker) /\ ~Unwrap(linker).ok)
          => (/\ cmdEnv = NoEnv
              /\ out = <<>>
              /\ pc \in {"linked", "waiting", "exiting", "done", "panicked"}
              /\ pc = "panicked" => (SpawnFailed \/ IsSome(child.status))
              /\ pc = "done" => IsSome(child.status)
              /\ child.launched => \A n \in LinkerVars : child.env[n] = procEnv[n])

C5_Witness ==
    /\ child.launched
    /\ IsSome(linker)
    /\ Unwrap(linker) = Err("could not convert linker to string")
    /\ child.env["CC"] = None
    /\ child.env["PKG_CONFIG_ALLOW_CROSS"] = None

(* C6: a linker string under the section of the resolved triplet is given  *)
(* to the child as CC and CXX, with PKG_CONFIG_ALLOW_CROSS = "1"; the      *)
(* section is the one of the triplet, not of the target of the command line *)
C6_LinkerExported ==
    /\ (pc = "linked" /\ IsSome(cfg))
          => \A l \in Linkers :
                (l \in LinkerStrings(Unwrap(cfg), Unwrap(c_target))) <=> (linker = Some(Ok(l)))
    /\ (IsSome(linker) /\ Unwrap(linker).ok)
          => (/\ cmdEnv["CC"] = Some(Unwrap(linker).val)
              /\ cmdEnv["CXX"] = Some(Unwrap(linker).val)
              /\ cmdEnv["PKG_CONFIG_ALLOW_CROSS"] = Some("1")
              /\ child.launched => \A n \in LinkerVars : child.env[n] = cmdEnv[n])

C6_Witness ==
    /\ child.launched
    /\ linker = Some(Ok("arm-linux-gcc"))
    /\ procEnv["CC"] = Some("cc")
    /\ child.env["CC"] = Some("arm-linux-gcc")
    /\ child.env["CXX"] = Some("arm-linux-gcc")
    /\ child.env["PKG_CONFIG_ALLOW_CROSS"] = Some("1")

NotAlias(x) == x # "kubos"

(* C7: the arguments of the child are the command, "--target", the         *)
(* resolved triplet, then the free arguments without the tokens "kubos",   *)
(* the others unchanged and in their order                                 *)
C7_ChildArguments ==
    child.launched
        => (/\ Len(child.args) >= 3
            /\ child.args[1] = matches.c[1]
            /\ child.args[2] = "--target"
            /\ child.args[3] = Unwrap(c_target)
            /\ SubSeq(child.args, 4, Len(child.args)) = SelectSeq(matches.free, NotAlias))

C7_Witness ==
    /\ child.launched
    /\ \E i \in 1..Len(matches.free) : matches.free[i] = "kubos"
    /\ Len(child.args) = 4
    /\ child.args[4] # "kubos"

(* C8: without the required command option the usage is printed and the    *)
(* run ends with no target resolved, no variable set and no child launched *)
C8_MissingCommandPrintsUsage ==
    (pc # "start" /\ ((\A i \in 1..Len(args) : args[i] # "-c")
                        \/ matches.err = "OptionMissing"))
        => (/\ pc = "done"
            /\ \E i \in 1..Len(out) : out[i] = "usage"
            /\ ~child.launched
            /\ k_target = None /\ c_target = None
            /\ linker = None /\ cmdEnv = NoEnv
            /\ procEnv \in ParentEnvs)

C8_Witness ==
    /\ args = <<"-t", "kubos-linux-isis-gcc", "--", "build">>
    /\ matches.err = "OptionMissing"
    /\ pc = "done"
    /\ out = <<"Error", "OptionMissing", "usage">>

(* C9: without the target option the run is the one of                     *)
(* -t x86-linux-native: --target x86_64-unknown-linux-gnu for the child,   *)
(* and CARGO_KUBOS_TARGET = x86-linux-native                               *)
C9_DefaultTarget ==
    (matches.ok /\ matches.t = <<>> /\ pc \notin {"parsed", "collected"} /\ ~opt_present_h(matches))
        => (/\ k_target = Some("x86-linux-native")
            /\ c_target = Some("x86_64-unknown-linux-gnu")
            /\ child.launched
                 => (/\ child.args[2] = "--target"
                     /\ child.args[3] = "x86_64-unknown-linux-gnu"
                     /\ child.env["CARGO_KUBOS_TARGET"] = Some("x86-linux-native")))

C9_Witness ==
    /\ matches.ok
    /\ matches.t = <<>>
    /\ child.launched
    /\ child.args[3] = "x86_64-unknown-linux-gnu"
    /\ child.env["CARGO_KUBOS_TARGET"] = Some("x86-linux-native")

SetsTargetVar == pc = "resolved" /\ pc' = "envset"

Launches == ~child.launched /\ child'.launched

(* C10: the launch of a child comes after the parse, the resolution of the *)
(* target and the setting of CARGO_KUBOS_TARGET to the target (not the     *)
(* triplet), which the child sees; the variable is not set when the target *)
(* is unsupported or the help flag present                                 *)
C10_OrderOfSteps ==
    [][/\ Launches
          => (/\ matches.ok
              /\ IsSome(k_target) /\ IsSome(c_target)
              /\ Unwrap(k_target) = (IF matches.t = <<>> THEN "x86-linux-native" ELSE matches.t[1])
              /\ procEnv["CARGO_KUBOS_TARGET"] = k_target
              /\ child'.env["CARGO_KUBOS_TARGET"] = k_target)
       /\ (SetsTargetVar \/ procEnv' # procEnv)
          => (/\ SetsTargetVar
              /\ matches.ok
              /\ ~opt_present_h(matches)
              /\ IsSome(c_target)
              /\ Unwrap(k_target) \in DOMAIN ExpectedTriplet
              /\ ~child.launched
              /\ procEnv' = [procEnv EXCEPT !["CARGO_KUBOS_TARGET"] = k_target])
       /\ (opt_present_h(matches) \/ (pc = "panicked" /\ c_target = None))
          => UNCHANGED procEnv]_vars

C10_Witness ==
    /\ child.launched
    /\ k_target = Some("kubos-linux-beaglebone-gcc")
    /\ c_target = Some("arm-unknown-linux-gnueabihf")
    /\ child.env["CARGO_KUBOS_TARGET"] = Some("kubos-linux-beaglebone-gcc")

====
